---- MODULE Spec2Model ----
(***************************************************************************)
(* A model of the array engine exercised by index.ipynb.  The notebook is  *)
(* a sequence of cells run against one kernel; the execution counts in the *)
(* file (a * 2 ran as In[44], after the random array of In[34] had been    *)
(* bound to a) show that cells run in any order against whatever the names *)
(* are bound to at that moment.  The state is therefore the kernel's       *)
(* object store and name bindings, and each action is one cell, with the   *)
(* literals of the cell generalised to small sets.                         *)
(*                                                                         *)
(* Arrays are strided descriptors over a flat buffer.  Strides and offsets *)
(* are counted in elements (the byte strides divided by the item size).    *)
(* Float arrays hold integral values only; dtype is carried as a tag.      *)
(***************************************************************************)
EXTENDS Integers, Sequences, FiniteSets, TLC

VARIABLES objs,   \* object store: id -> array object
          env,    \* kernel namespace: name -> id, or None
          rel,    \* how b was last derived from a, while both stay bound
          last,   \* the cell that ran last, its arguments and its error
          done    \* the names whose binding statement has run, and the
                  \* number of element assignments run

vars == <<objs, env, rel, last, done>>

----------------------------------------------------------------------------
(* Bounds of the model *)

MaxLen == 3      \* longest 1-D array created
MaxIdx == 2      \* integer indices and slice bounds range over -MaxIdx..MaxIdx
MaxWrites == 2   \* element assignments per run
MaxVal == 2      \* random array elements and thresholds range over 0..MaxVal
MaxDraw == 2     \* longest random array drawn

Steps == {-1, 1, 2}    \* slice steps tried
WriteVals == {90, 91}  \* values assigned by a[...] = v

----------------------------------------------------------------------------
(* Arithmetic helpers *)

None == 0

Min(x, y) == IF x <= y THEN x ELSE y
Max(x, y) == IF x >= y THEN x ELSE y

RECURSIVE Prod(_)
Prod(s) == IF s = <<>> THEN 1 ELSE Head(s) * Prod(Tail(s))

RECURSIVE SumSeq(_)
SumSeq(s) == IF s = <<>> THEN 0 ELSE Head(s) + SumSeq(Tail(s))

MaxSeq(s) == IF s = <<>> THEN 0 ELSE CHOOSE m \in {s[k] : k \in DOMAIN s} :
                                       \A k \in DOMAIN s : s[k] <= m

\* An optional value: <<>> is an omitted argument, <<x>> a given one.
Opt(S) == {<<>>} \cup {<<x>> : x \in S}

----------------------------------------------------------------------------
(* The array object: shape, strides, offset, base, dtype, buffer *)

\* Strides of a freshly allocated array: row-major, last axis fastest.
c_strides(shape) ==
    [k \in 1..Len(shape) |-> Prod(SubSeq(shape, k + 1, Len(shape)))]

\* An array that owns its buffer.
ndarray(shape, dtype, data) ==
    [base |-> None, offset |-> 0, shape |-> shape,
     strides |-> c_strides(shape), dtype |-> dtype, data |-> data]

ndim(arr) == Len(arr.shape)
size(arr) == Prod(arr.shape)

\* The buffer an array reads and writes: its own, or its base's.
Buffer(os, arr) == IF arr.base = None THEN arr.data ELSE os[arr.base].data

\* Every index tuple of an array of this shape.
Coords(shape) ==
    {idx \in [1..Len(shape) -> 0..(MaxSeq(shape) - 1)] :
        \A k \in 1..Len(shape) : idx[k] < shape[k]}

\* Position in the buffer of the element at idx (0-based).
ElemOffset(arr, idx) ==
    arr.offset + SumSeq([k \in 1..Len(idx) |-> idx[k] * arr.strides[k]])

\* a[i, j, ...] with one in-range non-negative integer per axis.
item(os, arr, idx) == Buffer(os, arr)[ElemOffset(arr, idx) + 1]

\* The index tuple of the f-th element (0-based) in row-major order.
unravel(shape, f) ==
    [k \in 1..Len(shape) |-> (f \div c_strides(shape)[k]) % shape[k]]

\* The elements in row-major iteration order (a.flat).
flat(os, arr) ==
    [f \in 1..size(arr) |-> item(os, arr, unravel(arr.shape, f - 1))]

----------------------------------------------------------------------------
(* Constructors *)

\* arange_len that counts stop itself when the steps land on it.
arange_len_closed(start, stop, step) ==
    IF step > 0
    THEN (IF stop >= start THEN (stop - start) \div step + 1 ELSE 0)
    ELSE (IF stop <= start THEN (start - stop) \div (0 - step) + 1 ELSE 0)

\* np.arange(start, stop, step) for integers, step /= 0.
arange_len(start, stop, step) ==
    IF step > 0
    THEN (IF stop > start THEN (stop - start + step - 1) \div step ELSE 0)
    ELSE (IF stop < start THEN (start - stop - step - 1) \div (0 - step) ELSE 0)

\* arange that walks upwards whatever the sign of step.
arange_upwards(start, stop, step) ==
    LET up == IF step < 0 THEN 0 - step ELSE step
        n == arange_len(start, stop, up)
    IN  ndarray(<<n>>, "int", [k \in 1..n |-> start + (k - 1) * up])

\* "" when the step can be walked, else the error raised.
arange_error(step) == IF step = 0 THEN "ValueError" ELSE ""

arange(start, stop, step) ==
    LET n == arange_len(start, stop, step)
    IN  ndarray(<<n>>, "int", [k \in 1..n |-> start + (k - 1) * step])

\* np.random.randint(low, high, n): any n values; vals is the draw.
randint(vals) == ndarray(<<Len(vals)>>, "int", vals)

----------------------------------------------------------------------------
(* The object store *)

\* The id the next allocation gets: the smallest one not in use.  No
\* operation observes an id; it only tells objects apart.
NewId(os) ==
    CHOOSE i \in 1..(Cardinality(DOMAIN os) + 1) :
        i \notin DOMAIN os /\ \A j \in 1..(i - 1) : j \in DOMAIN os

Put(os, arr) ==
    [i \in DOMAIN os \cup {NewId(os)} |-> IF i \in DOMAIN os THEN os[i] ELSE arr]

\* Live that counts only the objects a name is bound to.
LiveByName(os, ev) == {ev[n] : n \in DOMAIN ev} \ {None}

\* Objects reachable from a name, directly or as the base of a bound view.
Live(os, ev) ==
    LET bound == {ev[n] : n \in DOMAIN ev} \ {None}
    IN  bound \cup ({os[i].base : i \in bound} \ {None})

\* Reference counting: an object that no name, no bound view and no array
\* in `keep` refers to is released.
Collect(os, ev, keep) == [i \in Live(os, ev) \cup (keep \ {None}) |-> os[i]]

Bind(ev, name, id) == [ev EXCEPT ![name] = id]

----------------------------------------------------------------------------
(* Basic indexing: a[i, lo:hi:step, ...] *)

\* One component of an index expression: an integer or a range.
Index(k) == [kind |-> "int", i |-> k, start |-> <<>>, stop |-> <<>>, step |-> <<>>]
Slice(lo, hi, st) == [kind |-> "slice", i |-> 0, start |-> lo, stop |-> hi, step |-> st]
FullSlice == Slice(<<>>, <<>>, <<>>)

\* slice_indices with the stop bound counted in.
slice_indices_inclusive(sl, n) ==
    LET step == IF sl.step = <<>> THEN 1 ELSE sl.step[1]
        lower == IF step < 0 THEN -1 ELSE 0
        upper == IF step < 0 THEN n - 1 ELSE n
        clamp(x) == IF x < 0
                    THEN (IF x + n < 0 THEN lower ELSE x + n)
                    ELSE (IF x >= n THEN upper ELSE x)
        start == IF sl.start = <<>>
                 THEN (IF step < 0 THEN upper ELSE lower)
                 ELSE clamp(sl.start[1])
        stop == IF sl.stop = <<>>
                THEN (IF step < 0 THEN lower ELSE upper)
                ELSE clamp(sl.stop[1])
        len == IF step < 0
               THEN (IF stop < start THEN (start - stop) \div (0 - step) + 1 ELSE 0)
               ELSE (IF start < stop THEN (stop - start) \div step + 1 ELSE 0)
    IN  [start |-> start, stop |-> stop, step |-> step, len |-> len]

\* Python's slice.indices(n) and the length of the range it denotes:
\* defaults, negative bounds counted from the end, bounds clamped to the axis.
slice_indices(sl, n) ==
    LET step == IF sl.step = <<>> THEN 1 ELSE sl.step[1]
        lower == IF step < 0 THEN -1 ELSE 0
        upper == IF step < 0 THEN n - 1 ELSE n
        clamp(x) == IF x < 0
                    THEN (IF x + n < 0 THEN lower ELSE x + n)
                    ELSE (IF x >= n THEN upper ELSE x)
        start == IF sl.start = <<>>
                 THEN (IF step < 0 THEN upper ELSE lower)
                 ELSE clamp(sl.start[1])
        stop == IF sl.stop = <<>>
                THEN (IF step < 0 THEN lower ELSE upper)
                ELSE clamp(sl.stop[1])
        len == IF step < 0
               THEN (IF stop < start THEN (start - stop - 1) \div (0 - step) + 1 ELSE 0)
               ELSE (IF start < stop THEN (stop - start - 1) \div step + 1 ELSE 0)
    IN  [start |-> start, stop |-> stop, step |-> step, len |-> len]

\* A negative integer index counts from the end of the axis.
\* norm_index that takes a negative index for the first element.
norm_index_first(i, n) == IF i < 0 THEN 0 ELSE i

\* The position a Python index counts to: negative ones from the end.
norm_index(i, n) == IF i < 0 THEN i + n ELSE i

\* The index expression with the omitted trailing axes as full ranges.
expand(arr, ix) ==
    [k \in 1..ndim(arr) |-> IF k <= Len(ix) THEN ix[k] ELSE FullSlice]

\* "" when the expression can be applied, else the error raised.
index_error(arr, ix) ==
    IF Len(ix) > ndim(arr) THEN "IndexError"
    ELSE IF \E k \in 1..Len(ix) :
               /\ ix[k].kind = "int"
               /\ norm_index(ix[k].i, arr.shape[k]) \notin 0..(arr.shape[k] - 1)
         THEN "IndexError"
         ELSE ""

\* The array the array behind id should be recorded as the base of a view.
owner_of(id, arr) == IF arr.base = None THEN id ELSE arr.base

\* basic_index that keeps the axis of an integer, with length 1.
basic_index_keepdims(id, arr, ix) ==
    LET comps == expand(arr, ix)
        nrm(k) == slice_indices(comps[k], arr.shape[k])
        first(k) == IF comps[k].kind = "int"
                    THEN norm_index(comps[k].i, arr.shape[k])
                    ELSE nrm(k).start
    IN  [base |-> owner_of(id, arr),
         offset |-> arr.offset
                    + SumSeq([k \in 1..ndim(arr) |-> first(k) * arr.strides[k]]),
         shape |-> [k \in 1..ndim(arr) |->
                       IF comps[k].kind = "int" THEN 1 ELSE nrm(k).len],
         strides |-> [k \in 1..ndim(arr) |->
                         IF comps[k].kind = "int" THEN arr.strides[k]
                         ELSE arr.strides[k] * nrm(k).step],
         dtype |-> arr.dtype,
         data |-> <<>>]

\* basic_index that leaves the offset where the source has it.
basic_index_same_offset(id, arr, ix) ==
    LET comps == expand(arr, ix)
        nrm(k) == slice_indices(comps[k], arr.shape[k])
        kept == SelectSeq([k \in 1..ndim(arr) |-> k],
                          LAMBDA k : comps[k].kind = "slice")
    IN  [base |-> owner_of(id, arr),
         offset |-> arr.offset,
         shape |-> [j \in 1..Len(kept) |-> nrm(kept[j]).len],
         strides |-> [j \in 1..Len(kept) |-> arr.strides[kept[j]] * nrm(kept[j]).step],
         dtype |-> arr.dtype,
         data |-> <<>>]

\* a[ix] for integers and ranges: always a view of the same buffer.
basic_index(id, arr, ix) ==
    LET comps == expand(arr, ix)
        nrm(k) == slice_indices(comps[k], arr.shape[k])
        first(k) == IF comps[k].kind = "int"
                    THEN norm_index(comps[k].i, arr.shape[k])
                    ELSE nrm(k).start
        kept == SelectSeq([k \in 1..ndim(arr) |-> k],
                          LAMBDA k : comps[k].kind = "slice")
    IN  [base |-> owner_of(id, arr),
         offset |-> arr.offset
                    + SumSeq([k \in 1..ndim(arr) |-> first(k) * arr.strides[k]]),
         shape |-> [j \in 1..Len(kept) |-> nrm(kept[j]).len],
         strides |-> [j \in 1..Len(kept) |-> arr.strides[kept[j]] * nrm(kept[j]).step],
         dtype |-> arr.dtype,
         data |-> <<>>]

\* setitem that assigns only through an array that owns its buffer: an
\* assignment through a view is lost.
setitem_owner_only(os, id, ix, v) ==
    LET t == basic_index(id, os[id], ix)
        hit == {ElemOffset(t, c) + 1 : c \in Coords(t.shape)}
    IN  IF os[id].base # None THEN os
        ELSE [os EXCEPT ![id].data = [p \in DOMAIN @ |-> IF p \in hit THEN v ELSE @[p]]]

\* a[ix] = v: every element the expression selects becomes v, in the buffer.
setitem(os, id, ix, v) ==
    LET t == basic_index(id, os[id], ix)
        own == t.base
        hit == {ElemOffset(t, c) + 1 : c \in Coords(t.shape)}
    IN  [os EXCEPT ![own].data = [p \in DOMAIN @ |-> IF p \in hit THEN v ELSE @[p]]]

----------------------------------------------------------------------------
(* copy, reshape, boolean masks *)

\* Row-major contiguity: axes of length 1 do not count, empty arrays are.
is_c_contiguous(arr) ==
    \/ size(arr) = 0
    \/ \A k \in 1..ndim(arr) :
          arr.shape[k] = 1 \/ arr.strides[k] = c_strides(arr.shape)[k]

\* copy that hands back a contiguous view as it is, without a new buffer.
copy_lazy(os, arr) ==
    IF arr.base # None /\ is_c_contiguous(arr)
    THEN arr
    ELSE ndarray(arr.shape, arr.dtype, flat(os, arr))

\* a.copy(): a fresh buffer holding the elements in row-major order.
copy(os, arr) == ndarray(arr.shape, arr.dtype, flat(os, arr))

\* "" when the array can take the new shape, else the error raised.
reshape_error(arr, newshape) ==
    IF Prod(newshape) # size(arr) THEN "ValueError" ELSE ""

\* a.reshape(newshape) of a contiguous array: a view with row-major strides.
reshape_view(id, arr, newshape) ==
    [base |-> owner_of(id, arr), offset |-> arr.offset, shape |-> newshape,
     strides |-> c_strides(newshape), dtype |-> arr.dtype, data |-> <<>>]

\* reshape that views the buffer in place whatever the strides of the source.
reshape_in_place(os, id, arr, newshape) ==
    [os |-> os, arr |-> reshape_view(id, arr, newshape)]

\* a.reshape(newshape): the view above when a is contiguous; otherwise the
\* elements are first copied out in row-major order and the copy is viewed.
\* The result is the store after the call and the array made.
reshape(os, id, arr, newshape) ==
    IF is_c_contiguous(arr)
    THEN [os |-> os, arr |-> reshape_view(id, arr, newshape)]
    ELSE LET os1 == Put(os, copy(os, arr))
         IN  [os |-> os1, arr |-> reshape_view(NewId(os), os1[NewId(os)], newshape)]

\* "" when p names every axis of the array once, else the error raised.
transpose_error(arr, p) ==
    IF Len(p) = ndim(arr) /\ {p[i] : i \in 1..Len(p)} = 0..(ndim(arr) - 1)
    THEN "" ELSE "ValueError"

\* The axes in reverse order: the default of transpose, and a.T.
reversed_axes(arr) == [i \in 1..ndim(arr) |-> ndim(arr) - i]

\* transpose with the shape permuted and the strides left in place.
transpose_shape_only(id, arr, p) ==
    [base |-> owner_of(id, arr), offset |-> arr.offset,
     shape |-> [i \in 1..Len(p) |-> arr.shape[p[i] + 1]],
     strides |-> arr.strides,
     dtype |-> arr.dtype, data |-> <<>>]

\* a.transpose(p): a view whose axis i is the source's axis p[i].
transpose(id, arr, p) ==
    [base |-> owner_of(id, arr), offset |-> arr.offset,
     shape |-> [i \in 1..Len(p) |-> arr.shape[p[i] + 1]],
     strides |-> [i \in 1..Len(p) |-> arr.strides[p[i] + 1]],
     dtype |-> arr.dtype, data |-> <<>>]

\* a > t, a <= t, a >= t: a new boolean array of the same shape.
greater(os, arr, t) ==
    ndarray(arr.shape, "bool", [f \in 1..size(arr) |-> flat(os, arr)[f] > t])
less_equal(os, arr, t) ==
    ndarray(arr.shape, "bool", [f \in 1..size(arr) |-> flat(os, arr)[f] <= t])
greater_equal(os, arr, t) ==
    ndarray(arr.shape, "bool", [f \in 1..size(arr) |-> flat(os, arr)[f] >= t])
\* m1 | m2 of two freshly computed masks of one shape.
logical_or(m1, m2) ==
    ndarray(m1.shape, "bool", [f \in 1..size(m1) |-> m1.data[f] \/ m2.data[f]])

RECURSIVE compress(_, _)
compress(vals, bits) ==
    IF vals = <<>> THEN <<>>
    ELSE (IF Head(bits) THEN <<Head(vals)>> ELSE <<>>)
         \o compress(Tail(vals), Tail(bits))

\* "" when the mask fits the array, else the error raised.
mask_error(arr, mask) == IF mask.shape # arr.shape THEN "ShapeError" ELSE ""

\* mask_select with the test inverted: the elements whose entry is false.
mask_select_inverted(os, arr, mask) ==
    LET data == compress(flat(os, arr), [f \in 1..size(mask) |-> ~mask.data[f]])
    IN  ndarray(<<Len(data)>>, arr.dtype, data)

\* a[mask]: a new 1-D array of the elements whose mask entry is true.
mask_select(os, arr, mask) ==
    LET data == compress(flat(os, arr), mask.data)
    IN  ndarray(<<Len(data)>>, arr.dtype, data)

----------------------------------------------------------------------------
(* Arithmetic with broadcasting, joining, dot *)

MaxEye == 3   \* largest identity matrix created

\* np.eye(n): ones on the main diagonal, zeros elsewhere, float.
eye(n) ==
    ndarray(<<n, n>>, "float",
            [f \in 1..(n * n) |-> IF (f - 1) \div n = (f - 1) % n THEN 1 ELSE 0])

\* A Python number as an operand: an array with no axes.
scalar(v) == ndarray(<<>>, "int", <<v>>)

\* seq with v put in front of its element at position pos (0-based).
insert(seq, pos, v) == SubSeq(seq, 1, pos) \o <<v>> \o SubSeq(seq, pos + 1, Len(seq))

\* shape with leading axes of length 1, to n axes.
lpad(shape, n) ==
    [k \in 1..n |-> IF k <= n - Len(shape) THEN 1 ELSE shape[k - (n - Len(shape))]]

\* The shape two operands are stretched to, aligned from the trailing axis.
broadcast_shapes(s1, s2) ==
    LET n == Max(Len(s1), Len(s2))
    IN  [k \in 1..n |-> IF lpad(s1, n)[k] = 1 THEN lpad(s2, n)[k] ELSE lpad(s1, n)[k]]

\* "" when the shapes are compatible, else the error raised.
broadcast_error(s1, s2) ==
    LET n == Max(Len(s1), Len(s2))
    IN  IF \E k \in 1..n : /\ lpad(s1, n)[k] # lpad(s2, n)[k]
                           /\ lpad(s1, n)[k] # 1 /\ lpad(s2, n)[k] # 1
        THEN "ShapeError" ELSE ""

\* arr seen with the given shape: a stretched axis repeats its one element.
broadcast_to(arr, shape) ==
    LET d == Len(shape) - ndim(arr)
    IN  [arr EXCEPT !.shape = shape,
                    !.strides = [k \in 1..Len(shape) |->
                                    IF k <= d THEN 0
                                    ELSE IF arr.shape[k - d] = 1 THEN 0
                                    ELSE arr.strides[k - d]]]

\* float wins over int.
result_type(d1, d2) == IF "float" \in {d1, d2} THEN "float" ELSE "int"

apply(op, u, v) == CASE op = "add" -> u + v [] op = "multiply" -> u * v

\* ufunc that does not stretch its second operand: past the operand's own
\* elements it combines with 0.
ufunc_no_stretch(os, op, x, y) ==
    LET elems == flat(os, y)
    IN  ndarray(x.shape, result_type(x.dtype, y.dtype),
                [f \in 1..size(x) |->
                    apply(op, flat(os, x)[f], IF f <= Len(elems) THEN elems[f] ELSE 0)])

\* x + y, x * y: a new array of the broadcast shape, each element the
\* operation on the operands' elements at that position.
ufunc(os, op, x, y) ==
    LET shape == broadcast_shapes(x.shape, y.shape)
        bx == broadcast_to(x, shape)
        by == broadcast_to(y, shape)
    IN  ndarray(shape, result_type(x.dtype, y.dtype),
                [f \in 1..Prod(shape) |->
                    apply(op, item(os, bx, unravel(shape, f - 1)),
                              item(os, by, unravel(shape, f - 1)))])

RECURSIVE Reverse(_)
Reverse(s) == IF s = <<>> THEN <<>> ELSE Reverse(Tail(s)) \o <<Head(s)>>

\* "" when the arrays can be joined along axis, else the error raised.
concatenate_error(arrs, axis) ==
    IF Len(arrs) = 0 THEN "ValueError"
    ELSE IF \E k \in 1..Len(arrs) :
               \/ ndim(arrs[k]) # ndim(arrs[1])
               \/ \E j \in 1..ndim(arrs[1]) :
                      j # axis + 1 /\ arrs[k].shape[j] # arrs[1].shape[j]
         THEN "ShapeError" ELSE ""

\* The arrays joined along axis, one after the other, in a new array.
concatenate_from(os, arrs, axis) ==
    LET lens == [k \in 1..Len(arrs) |-> arrs[k].shape[axis + 1]]
        starts == [k \in 1..Len(arrs) |-> SumSeq(SubSeq(lens, 1, k - 1))]
        shape == [arrs[1].shape EXCEPT ![axis + 1] = SumSeq(lens)]
        which(i) == CHOOSE k \in 1..Len(arrs) : starts[k] <= i /\ i < starts[k] + lens[k]
        elem(idx) == LET k == which(idx[axis + 1])
                     IN  item(os, arrs[k], [idx EXCEPT ![axis + 1] = @ - starts[k]])
    IN  ndarray(shape, IF \E k \in 1..Len(arrs) : arrs[k].dtype = "float"
                       THEN "float" ELSE "int",
                [f \in 1..Prod(shape) |-> elem(unravel(shape, f - 1))])

\* concatenate that lays the inputs out last first.
concatenate_reversed(os, arrs, axis) == concatenate_from(os, Reverse(arrs), axis)

\* np.concatenate(arrs, axis)
concatenate(os, arrs, axis) == concatenate_from(os, arrs, axis)

\* arr with an axis of length 1 put in at position axis.
expand_dims(arr, axis) ==
    [arr EXCEPT !.shape = insert(arr.shape, axis, 1),
                !.strides = insert(arr.strides, axis, 0)]

\* "" when the arrays can be stacked, else the error raised.
stack_error(arrs) ==
    IF Len(arrs) = 0 THEN "ValueError"
    ELSE IF \E k \in 1..Len(arrs) : arrs[k].shape # arrs[1].shape
         THEN "ShapeError" ELSE ""

\* stack that puts the new axis first whatever axis is asked for.
stack_first_axis(os, arrs, axis) ==
    concatenate_from(os, [k \in 1..Len(arrs) |-> expand_dims(arrs[k], 0)], 0)

\* np.stack(arrs, axis): each array given one more axis, then joined on it.
stack(os, arrs, axis) ==
    concatenate_from(os, [k \in 1..Len(arrs) |-> expand_dims(arrs[k], axis)], axis)

\* The axis of y that x.dot(y) sums over: the second to last, or the only one.
dot_axis(y) == IF ndim(y) = 1 THEN 1 ELSE ndim(y) - 1

\* "" when the last axis of x is as long as the summed axis of y.
dot_error(x, y) ==
    IF x.shape[ndim(x)] # y.shape[dot_axis(y)] THEN "ShapeError" ELSE ""

\* dot that takes the first product for the sum.
dot_first_term(os, x, y) ==
    LET nx == ndim(x) - 1
        shape == SubSeq(x.shape, 1, nx)
                 \o SubSeq(y.shape, 1, dot_axis(y) - 1)
                 \o SubSeq(y.shape, dot_axis(y) + 1, ndim(y))
        elem(idx) ==
            item(os, x, SubSeq(idx, 1, nx) \o <<0>>)
            * item(os, y, insert(SubSeq(idx, nx + 1, Len(idx)), dot_axis(y) - 1, 0))
    IN  ndarray(shape, result_type(x.dtype, y.dtype),
                [f \in 1..Prod(shape) |-> elem(unravel(shape, f - 1))])

\* x.dot(y): the sum of products over the last axis of x and the summed
\* axis of y.
dot(os, x, y) ==
    LET nx == ndim(x) - 1
        n == x.shape[ndim(x)]
        shape == SubSeq(x.shape, 1, nx)
                 \o SubSeq(y.shape, 1, dot_axis(y) - 1)
                 \o SubSeq(y.shape, dot_axis(y) + 1, ndim(y))
        elem(idx) ==
            SumSeq([j \in 1..n |->
                item(os, x, SubSeq(idx, 1, nx) \o <<j - 1>>)
                * item(os, y, insert(SubSeq(idx, nx + 1, Len(idx)),
                                     dot_axis(y) - 1, j - 1))])
    IN  ndarray(shape, result_type(x.dtype, y.dtype),
                [f \in 1..Prod(shape) |-> elem(unravel(shape, f - 1))])

----------------------------------------------------------------------------
(* np.array: an array from nested Python lists *)

\* A Python value that is not a list: its kind and, as a number, its value
\* (False and True are 0 and 1; an object() has no value that is read).
Leaf(kind, v) == [tag |-> "leaf", kind |-> kind, v |-> v, items |-> <<>>]
\* A Python list.
List(items) == [tag |-> "list", kind |-> "", v |-> 0, items |-> items]

\* The shape np.array finds: the lengths met going down the first items.
RECURSIVE shape_of(_)
shape_of(s) ==
    IF s.tag = "leaf" THEN <<>>
    ELSE IF s.items = <<>> THEN <<0>>
    ELSE <<Len(s.items)>> \o shape_of(s.items[1])

\* Every list at one depth has the same length, and leaves lie at one depth.
RECURSIVE is_regular(_)
is_regular(s) ==
    \/ s.tag = "leaf"
    \/ \A k \in 1..Len(s.items) :
          is_regular(s.items[k]) /\ shape_of(s.items[k]) = shape_of(s.items[1])

\* "" for lists that fill a rectangle, else the error raised.
array_error(s) == IF is_regular(s) THEN "" ELSE "ShapeError"

\* The leaves, outer list first: row-major order.
RECURSIVE leaves(_)
leaves(s) ==
    IF s.tag = "leaf" THEN <<s>>
    ELSE IF s.items = <<>> THEN <<>>
    ELSE leaves(s.items[1]) \o leaves(List(Tail(s.items)))

\* promote that keeps the kind met last.
promote_last(k1, k2) == k2

\* The kind two kinds unify to: bool < int < float, object above all.
promote(k1, k2) ==
    IF "object" \in {k1, k2} THEN "object"
    ELSE IF "float" \in {k1, k2} THEN "float"
    ELSE IF "int" \in {k1, k2} THEN "int"
    ELSE "bool"

\* The dtype inferred for the leaves: float for none, else their kinds
\* promoted left to right.
RECURSIVE result_kind(_)
result_kind(ls) ==
    IF ls = <<>> THEN "float"
    ELSE IF Len(ls) = 1 THEN ls[1].kind
    ELSE promote(ls[1].kind, result_kind(Tail(ls)))

\* The element stored for a leaf in an array of this dtype.
as_dtype(dtype, leaf) == IF dtype = "bool" THEN leaf.v # 0 ELSE leaf.v

\* np.array that lays the leaves out along the first axis first.
array_column_major(s, dtype) ==
    LET ls == leaves(s)
        shape == shape_of(s)
        dt == IF dtype = <<>> THEN result_kind(ls) ELSE dtype[1]
        rev == [k \in 1..Len(shape) |-> shape[Len(shape) + 1 - k]]
        src(f) == LET c == unravel(rev, f - 1)
                  IN  1 + SumSeq([k \in 1..Len(shape) |->
                                     c[Len(shape) + 1 - k] * c_strides(shape)[k]])
    IN  ndarray(shape, dt, [f \in 1..Len(ls) |-> as_dtype(dt, ls[src(f)])])

\* np.array(s), np.array(s, dtype=...)
array(s, dtype) ==
    LET ls == leaves(s)
        dt == IF dtype = <<>> THEN result_kind(ls) ELSE dtype[1]
    IN  ndarray(shape_of(s), dt, [f \in 1..Len(ls) |-> as_dtype(dt, ls[f])])

----------------------------------------------------------------------------
(* The kernel: names, the last cell run, and the inputs tried *)

NoRel == [kind |-> "none", start |-> <<>>, step |-> <<>>]

Ran(cell, name, ix, arg, err, mask) ==
    [cell |-> cell, name |-> name, ix |-> ix, arg |-> arg, err |-> err,
     mask |-> mask, ops |-> <<>>]
\* A call on the arrays named in ops, in that order.
RanOp(cell, ops, arg, err) ==
    [cell |-> cell, name |-> "b", ix |-> <<>>, arg |-> arg, err |-> err,
     mask |-> <<>>, ops |-> ops]

Bounds == Opt(-MaxIdx..MaxIdx)
\* Every range tried on one axis, and the fewer tried on two axes at once.
SliceArgs == {Slice(lo, hi, st) : lo \in Bounds, hi \in Bounds, st \in Opt(Steps)}
SliceArgs2 == {Slice(lo, hi, st) : lo \in Opt({-1, 1}), hi \in Opt({-1, 2}),
                                   st \in Opt(Steps)}
SliceExprs == {<<s>> : s \in SliceArgs} \cup (SliceArgs2 \X SliceArgs2)
\* The ranges tried where element assignments follow.
ViewArgs == {Slice(lo, hi, st) : lo \in Opt({1}), hi \in Opt({-1}), st \in Opt({-1, 2})}
ViewExprs == {<<s>> : s \in ViewArgs}
                \cup {<<s, t>> : s \in ViewArgs, t \in {FullSlice, Slice(<<>>, <<2>>, <<>>),
                                                        Slice(<<>>, <<>>, <<-1>>)}}
\* The element assignments tried: in and out of range, counted from either end.
IntExprs == {<<Index(i)>> : i \in {-1, 0, MaxIdx}}
              \cup {<<Index(-1), Index(0)>>, <<Index(0), Index(-1)>>,
                     <<Index(1), Index(MaxIdx)>>}
Draws == UNION {[1..n -> 0..MaxVal] : n \in 0..MaxDraw}
Shapes2 == {<<2, 2>>, <<2, 3>>}

Bound(name) == env[name] # None
Arr(name) == objs[env[name]]

\* name = <the array object arr, freshly made>: the object the name held is
\* released unless something else refers to it.
AssignIn(os, name, arr) ==
    LET os0 == Collect(os, Bind(env, name, None), {arr.base})
    IN  /\ env' = Bind(env, name, NewId(os0))
        /\ objs' = Put(os0, arr)

Assign(name, arr) == AssignIn(objs, name, arr)

\* The statement binding this name has not run yet; it runs now.
Once(name) ==
    /\ name \notin done.binds
    /\ done' = [done EXCEPT !.binds = @ \cup {name}]

\* A fresh kernel with the names a session uses.  The sessions explored
\* bind each name once.
Fresh(names) ==
    /\ objs = <<>>
    /\ env = [n \in names |-> None]
    /\ rel = NoRel
    /\ last = Ran("start", "", <<>>, <<>>, "", <<>>)
    /\ done = [binds |-> {}, writes |-> 0]

\* a = np.arange(n)
CellArange(n) ==
    /\ Once("a")
    /\ Assign("a", arange(0, n, 1))
    /\ rel' = NoRel
    /\ last' = Ran("arange", "a", <<>>, <<n>>, "", <<>>)

\* a = np.arange(r * c).reshape(r, c)
CellArangeReshape(shape) ==
    LET os1 == Put(objs, arange(0, Prod(shape), 1))
        made == reshape(os1, NewId(objs), os1[NewId(objs)], shape)
    IN  /\ Once("a")
        /\ reshape_error(os1[NewId(objs)], shape) = ""
        /\ AssignIn(made.os, "a", made.arr)
        /\ rel' = NoRel
        /\ last' = Ran("arange_reshape", "a", <<>>, shape, "", <<>>)

\* a = np.random.randint(0, 10, (n))
CellRandint(vals) ==
    /\ Once("a")
    /\ Assign("a", randint(vals))
    /\ rel' = NoRel
    /\ last' = Ran("randint", "a", <<>>, <<>>, "", <<>>)

\* The ranges of a[ix] as first index and step on each axis of a.
RelView(arr, ix) ==
    LET full == expand(arr, ix)
        nrm(k) == slice_indices(full[k], arr.shape[k])
    IN  [kind |-> "view",
         start |-> [k \in 1..Len(full) |-> nrm(k).start],
         step |-> [k \in 1..Len(full) |-> nrm(k).step]]

\* b = a[lo:hi:step, ...] (to = "b"), or the same slice under another name
CellSlice(to, ix) ==
    /\ Bound("a") /\ Once(to)
    /\ IF index_error(Arr("a"), ix) # ""
       THEN /\ last' = Ran("slice", to, ix, <<>>, index_error(Arr("a"), ix), <<>>)
            /\ UNCHANGED <<objs, env, rel>>
       ELSE /\ Assign(to, basic_index(env["a"], Arr("a"), ix))
            /\ rel' = IF to = "b" THEN RelView(Arr("a"), ix) ELSE rel
            /\ last' = Ran("slice", to, ix, <<>>, "", <<>>)

\* b = a.copy()
CellCopy ==
    /\ Bound("a") /\ Once("b")
    /\ Assign("b", copy(objs, Arr("a")))
    /\ rel' = [NoRel EXCEPT !.kind = "copy"]
    /\ last' = Ran("copy", "b", <<>>, <<>>, "", <<>>)

\* CellSetItem that assigns axis by axis: when the first of two indices is
\* in range and the second is not, the row is assigned before the failure.
CellSetItemByAxis(name, ix, v) ==
    /\ Bound(name)
    /\ done.writes < MaxWrites
    /\ done' = [done EXCEPT !.writes = @ + 1]
    /\ UNCHANGED <<env, rel>>
    /\ IF index_error(Arr(name), ix) # ""
       THEN /\ last' = Ran("setitem", name, ix, <<v>>, index_error(Arr(name), ix), <<>>)
            /\ objs' = IF Len(ix) = 2 /\ index_error(Arr(name), <<ix[1]>>) = ""
                       THEN setitem(objs, env[name], <<ix[1]>>, v)
                       ELSE objs
       ELSE /\ objs' = setitem(objs, env[name], ix, v)
            /\ last' = Ran("setitem", name, ix, <<v>>, "", <<>>)

\* a[i] = v, b[i] = v, a[i, j] = v
CellSetItem(name, ix, v) ==
    /\ Bound(name)
    /\ done.writes < MaxWrites
    /\ done' = [done EXCEPT !.writes = @ + 1]
    /\ UNCHANGED <<env, rel>>
    /\ IF index_error(Arr(name), ix) # ""
       THEN /\ last' = Ran("setitem", name, ix, <<v>>, index_error(Arr(name), ix), <<>>)
            /\ UNCHANGED objs
       ELSE /\ objs' = setitem(objs, env[name], ix, v)
            /\ last' = Ran("setitem", name, ix, <<v>>, "", <<>>)

\* b = a[m > t] and b = a[(m <= t) | (m >= u)], the mask computed from m
CellMask(m, t, u) ==
    /\ Bound("a") /\ Bound(m) /\ Once("b")
    /\ LET mask == IF u = <<>>
                   THEN greater(objs, Arr(m), t)
                   ELSE logical_or(less_equal(objs, Arr(m), t),
                                   greater_equal(objs, Arr(m), u[1]))
           ran(err) == Ran("mask", m, <<>>, mask.shape, err, mask.data)
       IN  IF mask_error(Arr("a"), mask) # ""
           THEN /\ last' = ran(mask_error(Arr("a"), mask))
                /\ UNCHANGED <<objs, env, rel>>
           ELSE /\ Assign("b", mask_select(objs, Arr("a"), mask))
                /\ rel' = [NoRel EXCEPT !.kind = "mask"]
                /\ last' = ran("")
    
----------------------------------------------------------------------------
(* Slices are views: a is made, b = a[...] is taken, elements are assigned *)

Init == Fresh({"a", "b"})

Next ==
    \/ \E n \in 0..MaxLen : CellArange(n)
    \/ \E shape \in Shapes2 : CellArangeReshape(shape)
    \/ \E ix \in ViewExprs : CellSlice("b", ix)
    \/ \E name \in {"a", "b"}, ix \in IntExprs, v \in WriteVals : CellSetItem(name, ix, v)

Spec == Init /\ [][Next]_vars

(* Copies: a is made, b = a.copy() and a view v of a are taken, elements are
   assigned through any of the three *)

InitCopy == Fresh({"a", "b", "v"})

NextCopy ==
    \/ \E n \in 0..MaxLen : CellArange(n)
    \/ \E shape \in Shapes2 : CellArangeReshape(shape)
    \/ \E s \in {FullSlice, Slice(<<1>>, <<>>, <<>>), Slice(<<>>, <<>>, <<-1>>)} :
           CellSlice("v", <<s>>)
    \/ CellCopy
    \/ \E name \in {"a", "b", "v"}, ix \in IntExprs, v \in WriteVals :
           CellSetItem(name, ix, v)

SpecCopy == InitCopy /\ [][NextCopy]_vars

(* Ranges: a is made and b = a[...] is taken, for every range tried *)

NextSlice ==
    \/ \E n \in 0..MaxLen : CellArange(n)
    \/ \E shape \in Shapes2 : CellArangeReshape(shape)
    \/ \E ix \in SliceExprs : CellSlice("b", ix)

SpecSlice == Init /\ [][NextSlice]_vars

(* Boolean masks: a is made, possibly a slice v of it, b = a[mask] is taken
   with the mask computed from a or from v, elements are assigned *)

NextMask ==
    \/ \E shape \in Shapes2 : CellArangeReshape(shape)
    \/ \E vals \in Draws : CellRandint(vals)
    \/ CellSlice("v", <<Slice(<<1>>, <<>>, <<>>)>>)
    \/ \E m \in {"a", "v"}, t \in 0..MaxVal, u \in Opt(0..MaxVal) : CellMask(m, t, u)
    \/ \E name \in {"a", "b"}, ix \in {<<Index(-1)>>, <<Index(0), Index(-1)>>},
          v \in WriteVals : CellSetItem(name, ix, v)

SpecMask == InitCopy /\ [][NextMask]_vars

(* Transposition and reshaping: a is made, b = a.T or b = a.transpose(p) is
   taken, r = a.reshape(s) or r = b.reshape(s) is taken *)

Shapes3 == {<<2, 3>>, <<1, 2, 3>>, <<2, 3, 3>>}
\* Axis orders tried: none (the default), and every sequence of two or three
\* axis numbers, permutation or not.
AxisOrders == {<<>>} \cup UNION {[1..n -> 0..2] : n \in 2..3}
ReShapes == {<<6>>, <<18>>, <<4>>, <<3, 2>>, <<6, 1>>, <<1, 6>>, <<3, 6>>, <<9, 2>>,
             <<2, 2>>, <<3, 1, 2>>, <<3, 3, 2>>}

\* b = a.T
CellT ==
    /\ Bound("a") /\ Once("b")
    /\ Assign("b", transpose(env["a"], Arr("a"), reversed_axes(Arr("a"))))
    /\ last' = Ran("T", "a", <<>>, <<>>, "", <<>>)
    /\ UNCHANGED rel

\* b = a.transpose(p), b = a.transpose()
CellTranspose(p) ==
    LET axes == IF p = <<>> THEN reversed_axes(Arr("a")) ELSE p
    IN  /\ Bound("a") /\ Once("b")
        /\ UNCHANGED rel
        /\ IF transpose_error(Arr("a"), axes) # ""
           THEN /\ last' = Ran("transpose", "a", <<>>, p, transpose_error(Arr("a"), axes), <<>>)
                /\ UNCHANGED <<objs, env>>
           ELSE /\ Assign("b", transpose(env["a"], Arr("a"), axes))
                /\ last' = Ran("transpose", "a", <<>>, p, "", <<>>)

\* r = a.reshape(s), r = b.reshape(s)
CellReshape(src, s) ==
    /\ Bound(src) /\ Once("r")
    /\ UNCHANGED rel
    /\ IF reshape_error(Arr(src), s) # ""
       THEN /\ last' = Ran("reshape", src, <<>>, s, reshape_error(Arr(src), s), <<>>)
            /\ UNCHANGED <<objs, env>>
       ELSE LET made == reshape(objs, env[src], Arr(src), s)
            IN  /\ AssignIn(made.os, "r", made.arr)
                /\ last' = Ran("reshape", src, <<>>, s, "", <<>>)

InitShape == Fresh({"a", "b", "r"})

NextShape ==
    \/ \E shape \in Shapes3 : CellArangeReshape(shape)
    \/ CellT
    \/ \E p \in AxisOrders : CellTranspose(p)
    \/ \E src \in {"a", "b"}, s \in ReShapes : CellReshape(src, s)

SpecShape == InitShape /\ [][NextShape]_vars

(* Arithmetic, joining and dot: a, a1 and a2 are made, b is computed *)

VecLens == {2, 3}
MatShapes == {<<2, 3>>, <<3, 3>>, <<4, 3>>}
Starts == {3, 10}
Scalars == {2, 10}
OpNames == {"a", "a1", "a2"}
\* The lists given to stack and concatenate: up to two of a1, a2.
NameLists == UNION {[1..n -> {"a1", "a2"}] : n \in 0..2}

\* a1 = np.arange(3); a2 = np.arange(3, 6)
CellVector(name, start, n) ==
    /\ Once(name)
    /\ Assign(name, arange(start, start + n, 1))
    /\ last' = Ran("arange", name, <<>>, <<start, start + n>>, "", <<>>)
    /\ UNCHANGED rel

\* a1 = np.arange(0, 9).reshape(3,3); a2 = np.arange(10, 19).reshape(3,3)
CellMatrix(name, start, shape) ==
    LET os1 == Put(objs, arange(start, start + Prod(shape), 1))
        made == reshape(os1, NewId(objs), os1[NewId(objs)], shape)
    IN  /\ Once(name)
        /\ AssignIn(made.os, name, made.arr)
        /\ last' = Ran("arange_reshape", name, <<>>, shape, "", <<>>)
        /\ UNCHANGED rel

\* a1 = np.eye(n)
CellEye(n) ==
    /\ Once("a1")
    /\ Assign("a1", eye(n))
    /\ last' = Ran("eye", "a1", <<>>, <<n>>, "", <<>>)
    /\ UNCHANGED rel

\* b = x + s, b = x * s
CellScalarOp(op, x, s) ==
    /\ Bound(x) /\ Once("b")
    /\ Assign("b", ufunc(objs, op, Arr(x), scalar(s)))
    /\ last' = RanOp(op, <<x>>, <<s>>, "")
    /\ UNCHANGED rel

\* b = x + y, b = x * y
CellArrayOp(op, x, y) ==
    /\ Bound(x) /\ Bound(y) /\ Once("b")
    /\ UNCHANGED rel
    /\ IF broadcast_error(Arr(x).shape, Arr(y).shape) # ""
       THEN /\ last' = RanOp(op, <<x, y>>, <<>>, broadcast_error(Arr(x).shape, Arr(y).shape))
            /\ UNCHANGED <<objs, env>>
       ELSE /\ Assign("b", ufunc(objs, op, Arr(x), Arr(y)))
            /\ last' = RanOp(op, <<x, y>>, <<>>, "")

\* b = np.stack([...]), b = np.stack([...], axis=1)
CellStack(names, axis) ==
    LET arrs == [k \in 1..Len(names) |-> Arr(names[k])]
    IN  /\ \A k \in 1..Len(names) : Bound(names[k])
        /\ Once("b")
        /\ UNCHANGED rel
        /\ IF stack_error(arrs) # ""
           THEN /\ last' = RanOp("stack", names, <<axis>>, stack_error(arrs))
                /\ UNCHANGED <<objs, env>>
           ELSE /\ axis <= ndim(arrs[1])
                /\ Assign("b", stack(objs, arrs, axis))
                /\ last' = RanOp("stack", names, <<axis>>, "")

\* b = np.concatenate([...]), b = np.concatenate([...], axis=1)
CellConcatenate(names, axis) ==
    LET arrs == [k \in 1..Len(names) |-> Arr(names[k])]
    IN  /\ \A k \in 1..Len(names) : Bound(names[k])
        /\ \A k \in 1..Len(names) : axis < ndim(arrs[k])
        /\ Once("b")
        /\ UNCHANGED rel
        /\ IF concatenate_error(arrs, axis) # ""
           THEN /\ last' = RanOp("concatenate", names, <<axis>>, concatenate_error(arrs, axis))
                /\ UNCHANGED <<objs, env>>
           ELSE /\ Assign("b", concatenate(objs, arrs, axis))
                /\ last' = RanOp("concatenate", names, <<axis>>, "")

\* b = x.dot(y)
CellDot(x, y) ==
    /\ Bound(x) /\ Bound(y) /\ Once("b")
    /\ UNCHANGED rel
    /\ IF dot_error(Arr(x), Arr(y)) # ""
       THEN /\ last' = RanOp("dot", <<x, y>>, <<>>, dot_error(Arr(x), Arr(y)))
            /\ UNCHANGED <<objs, env>>
       ELSE /\ Assign("b", dot(objs, Arr(x), Arr(y)))
            /\ last' = RanOp("dot", <<x, y>>, <<>>, "")

\* b = x.dot(y[r]) for a row r of a 2-D y
CellDotRow(x, y, r) ==
    LET row == basic_index(env[y], Arr(y), <<Index(r)>>)
    IN  /\ Bound(x) /\ Bound(y) /\ Once("b")
        /\ ndim(Arr(y)) = 2
        /\ UNCHANGED rel
        /\ IF dot_error(Arr(x), row) # ""
           THEN /\ last' = RanOp("dot_row", <<x, y>>, <<r>>, dot_error(Arr(x), row))
                /\ UNCHANGED <<objs, env>>
           ELSE /\ Assign("b", dot(objs, Arr(x), row))
                /\ last' = RanOp("dot_row", <<x, y>>, <<r>>, "")

\* Arithmetic: a, a1 and a2 are made, b = x op s or b = x op y is computed.
InitArith == Fresh({"a", "a1", "a2", "b"})

NextArith ==
    \/ \E n \in 0..MaxLen : CellArange(n)
    \/ \E shape \in MatShapes : CellMatrix("a1", 0, shape)
    \/ CellVector("a2", 3, 3)
    \/ CellMatrix("a2", 10, <<3, 3>>)
    \/ \E op \in {"add", "multiply"}, x \in OpNames, s \in Scalars : CellScalarOp(op, x, s)
    \/ \E op \in {"add", "multiply"}, x \in OpNames, y \in OpNames : CellArrayOp(op, x, y)

SpecArith == InitArith /\ [][NextArith]_vars

\* Joining and dot: a1 and a2 are made, b is computed from them.
InitOps == Fresh({"a1", "a2", "b"})

NextOps ==
    \/ \E n \in VecLens : CellVector("a1", 0, n)
    \/ \E start \in Starts, n \in VecLens : CellVector("a2", start, n)
    \/ \E shape \in MatShapes : CellMatrix("a1", 0, shape)
    \/ \E start \in Starts, shape \in MatShapes : CellMatrix("a2", start, shape)
    \/ \E n \in 1..MaxEye : CellEye(n)
    \/ \E names \in NameLists, axis \in 0..2 : CellStack(names, axis)
    \/ \E names \in NameLists, axis \in 0..1 : CellConcatenate(names, axis)
    \/ \E x \in {"a1", "a2"}, y \in {"a1", "a2"} : CellDot(x, y)
    \/ \E x \in {"a1", "a2"}, r \in {0, 1} : CellDotRow(x, "a2", r)

SpecOps == InitOps /\ [][NextOps]_vars

(* np.arange with every argument given *)

MaxEnd == 3   \* start and stop range over -MaxEnd..MaxEnd, and the notebook's values
Ends == (-MaxEnd..MaxEnd) \cup {5, 10, 90, 100}
ArangeSteps == {-3, -2, -1, 0, 1, 2, 3}

\* a = np.arange(start, stop, step)
CellArangeStep(start, stop, step) ==
    /\ Once("a")
    /\ UNCHANGED rel
    /\ IF arange_error(step) # ""
       THEN /\ last' = Ran("arange", "a", <<>>, <<start, stop, step>>, arange_error(step), <<>>)
            /\ UNCHANGED <<objs, env>>
       ELSE /\ Assign("a", arange(start, stop, step))
            /\ last' = Ran("arange", "a", <<>>, <<start, stop, step>>, "", <<>>)

InitArange == Fresh({"a"})

NextArange ==
    \E start \in Ends, stop \in Ends, step \in ArangeSteps : CellArangeStep(start, stop, step)

SpecArange == InitArange /\ [][NextArange]_vars

(* np.array of nested lists *)

MaxList == 3   \* longest flat list given to np.array

AllLeaves == {Leaf("bool", 0), Leaf("bool", 1), Leaf("int", 1), Leaf("int", 2),
              Leaf("float", 1), Leaf("float", 3), Leaf("object", 7)}
NumLeaves == {Leaf("bool", 1), Leaf("int", 1), Leaf("int", 2), Leaf("float", 3)}
IntLeaves == {Leaf("int", 1), Leaf("int", 2)}
Lists(S, lo, hi) == {List(t) : t \in UNION {[1..n -> S] : n \in lo..hi}}
\* Leaves, flat lists, lists of one or two rows (the rows of any lengths, or
\* a leaf among them), and lists of one or two such faces.
Nested ==
    AllLeaves
    \cup Lists(AllLeaves, 0, MaxList)
    \cup Lists(Lists(NumLeaves, 0, 2) \cup {Leaf("int", 1)}, 1, 2)
    \cup Lists(Lists(Lists(IntLeaves, 1, 2), 1, 2), 1, 2)
DTypes == Opt({"float", "object"})

\* a = np.array([...]), a = np.array([...], dtype="float64")
CellArray(s, dtype) ==
    /\ Once("a")
    /\ UNCHANGED rel
    /\ dtype = <<"float">> => \A k \in 1..Len(leaves(s)) : leaves(s)[k].kind # "object"
    /\ IF array_error(s) # ""
       THEN /\ last' = Ran("array", "a", <<>>, <<s, dtype>>, array_error(s), <<>>)
            /\ UNCHANGED <<objs, env>>
       ELSE /\ Assign("a", array(s, dtype))
            /\ last' = Ran("array", "a", <<>>, <<s, dtype>>, "", <<>>)

InitArray == Fresh({"a"})

NextArray == \E s \in Nested, dtype \in DTypes : CellArray(s, dtype)

SpecArray == InitArray /\ [][NextArray]_vars

(* Failing calls: a and a view v of it are made and assigned to, then one
   call that can fail is made *)

\* The lists given to stack and concatenate here: up to two of a, v.
FailLists == UNION {[1..n -> {"a", "v"}] : n \in 0..2}
FailIndices == {<<Index(-1)>>, <<Index(MaxIdx)>>, <<Index(1), Index(MaxIdx)>>}
FailShapes == {<<4>>, <<2, 2>>, <<5>>, <<3, 2>>}
FailOrders == {<<0>>, <<1, 0>>, <<0, 0>>, <<0, 2>>, <<0, 1, 2>>}

InitFail == Fresh({"a", "v", "b", "r"})

NextFail ==
    \/ CellArange(MaxLen)
    \/ \E shape \in Shapes2 : CellArangeReshape(shape)
    \/ \E s \in {Slice(<<1>>, <<>>, <<>>), Slice(<<>>, <<>>, <<-1>>)} : CellSlice("v", <<s>>)
    \/ \E name \in {"a", "v"}, ix \in FailIndices : CellSetItem(name, ix, 90)
    \/ \E m \in {"a", "v"}, t \in {0, 1} : CellMask(m, t, <<>>)
    \/ \E p \in FailOrders : CellTranspose(p)
    \/ \E src \in {"a", "v"}, s \in FailShapes : CellReshape(src, s)
    \/ \E x \in {"a", "v"}, y \in {"a", "v"} : CellArrayOp("add", x, y)
    \/ \E names \in FailLists : CellStack(names, 0)
    \/ \E names \in FailLists : CellConcatenate(names, 0)
    \/ \E x \in {"a", "v"}, y \in {"a", "v"} : CellDot(x, y)

SpecFail == InitFail /\ [][NextFail]_vars

(* Views of views: a is made, b is taken from a and c from b, each by
   indexing, transposing or reshaping *)

ChainArgs == {Slice(lo, hi, st) : lo \in Opt({1, -1}), hi \in Opt({-1}),
                                  st \in Opt({-1, 2, -2})}
ChainExprs == {<<s>> : s \in ChainArgs}
              \cup {<<Index(0)>>, <<Index(-1)>>}
              \cup ({FullSlice, Slice(<<>>, <<>>, <<-1>>), Index(0)}
                    \X {Slice(<<1>>, <<>>, <<>>), Slice(<<>>, <<>>, <<-2>>), Index(-1)})
ChainShapes == {<<6>>, <<4>>, <<2>>, <<2, 2>>, <<3, 2>>, <<1, 3>>, <<2, 1, 2>>}
Chain == {<<"a", "b">>, <<"b", "c">>}

\* b = a[...], c = b[...]
CellViewOf(src, to, ix) ==
    /\ Bound(src) /\ Once(to)
    /\ UNCHANGED rel
    /\ IF index_error(Arr(src), ix) # ""
       THEN /\ last' = [Ran("view", to, ix, <<>>, index_error(Arr(src), ix), <<>>)
                           EXCEPT !.ops = <<src>>]
            /\ UNCHANGED <<objs, env>>
       ELSE /\ Assign(to, basic_index(env[src], Arr(src), ix))
            /\ last' = [Ran("view", to, ix, <<>>, "", <<>>) EXCEPT !.ops = <<src>>]

\* b = a.T, c = b.T
CellTOf(src, to) ==
    /\ Bound(src) /\ Once(to)
    /\ UNCHANGED rel
    /\ Assign(to, transpose(env[src], Arr(src), reversed_axes(Arr(src))))
    /\ last' = [Ran("T", to, <<>>, <<>>, "", <<>>) EXCEPT !.ops = <<src>>]

\* b = a.reshape(s), c = b.reshape(s)
CellReshapeOf(src, to, s) ==
    /\ Bound(src) /\ Once(to)
    /\ UNCHANGED rel
    /\ IF reshape_error(Arr(src), s) # ""
       THEN /\ last' = [Ran("reshape_of", to, <<>>, s, reshape_error(Arr(src), s), <<>>)
                           EXCEPT !.ops = <<src>>]
            /\ UNCHANGED <<objs, env>>
       ELSE LET made == reshape(objs, env[src], Arr(src), s)
            IN  /\ AssignIn(made.os, to, made.arr)
                /\ last' = [Ran("reshape_of", to, <<>>, s, "", <<>>) EXCEPT !.ops = <<src>>]

InitViews == Fresh({"a", "b", "c"})

NextViews ==
    \/ \E n \in 0..MaxLen : CellArange(n)
    \/ \E shape \in Shapes2 \cup {<<2, 3, 2>>} : CellArangeReshape(shape)
    \/ \E st \in Chain, ix \in ChainExprs : CellViewOf(st[1], st[2], ix)
    \/ \E st \in Chain : CellTOf(st[1], st[2])
    \/ \E st \in Chain, s \in ChainShapes : CellReshapeOf(st[1], st[2], s)

SpecViews == InitViews /\ [][NextViews]_vars

(* Integers and ranges in one index expression, read and assigned *)

\* Integers from below -n to above n - 1 for every axis made, and ranges.
Comps == {Index(i) : i \in (0 - MaxIdx - 1)..(MaxIdx + 1)}
         \cup {FullSlice, Slice(<<1>>, <<>>, <<>>), Slice(<<>>, <<2>>, <<>>),
               Slice(<<>>, <<>>, <<-1>>)}
MixedExprs == {<<x>> : x \in Comps} \cup (Comps \X Comps)
WriteExprs == {<<Index(i)>> : i \in (0 - MaxIdx - 1)..(MaxIdx + 1)}
              \cup {<<Index(-1), Index(1)>>, <<Index(1), Index(0 - MaxIdx - 1)>>,
                    <<Index(-2), Index(-1)>>}

NextIndex ==
    \/ \E n \in 0..MaxLen : CellArange(n)
    \/ \E shape \in Shapes2 \cup {<<3, 3>>, <<2, 2, 2>>} : CellArangeReshape(shape)
    \/ \E ix \in MixedExprs : CellSlice("b", ix)

SpecIndex == Init /\ [][NextIndex]_vars

\* Integer indices, read into b and assigned through a.
NextNeg ==
    \/ \E n \in 0..MaxLen : CellArange(n)
    \/ \E shape \in Shapes2 \cup {<<3, 3>>} : CellArangeReshape(shape)
    \/ \E ix \in WriteExprs : CellSlice("b", ix)
    \/ \E ix \in WriteExprs : CellSetItem("a", ix, 90)

SpecNeg == Init /\ [][NextNeg]_vars

----------------------------------------------------------------------------
(* What the claims are stated with *)

\* The elements of a named array, by index tuple.
At(name, idx) == item(objs, Arr(name), idx)
FlatOf(name) == flat(objs, Arr(name))

\* A step leaves the named array as it was: the same shape, strides and
\* offset over a buffer holding the same values, so the same element at
\* every coordinate.
Untouched(name) ==
    /\ Arr(name)' = Arr(name)
    /\ Buffer(objs, Arr(name))' = Buffer(objs, Arr(name))

\* The coordinates of arr that an all-integer expression selects, a negative
\* index k on an axis of length n standing for n + k.
Selected(arr, ix) ==
    {c \in Coords(arr.shape) :
        \A k \in 1..Len(ix) :
            c[k] = IF ix[k].i < 0 THEN arr.shape[k] + ix[k].i ELSE ix[k].i}

\* Row-major order of index tuples: the last axis varies fastest.
LexLess(c, d) ==
    \E k \in 1..Len(c) : c[k] < d[k] /\ \A j \in 1..(k - 1) : c[j] = d[j]
RowMajorRank(shape, idx) == Cardinality({c \in Coords(shape) : LexLess(c, idx)})

\* C1: while b is a range slice of a, b is a view of a: it has a base and
\* shares a's buffer, every element of b is the element of a at the
\* corresponding coordinate after any element assignments through a or b,
\* and an assignment just made (through a non-negative or a negative index)
\* is read back through the name it was made through.
C1_SliceIsView ==
    (Bound("a") /\ Bound("b") /\ rel.kind = "view") =>
        /\ Arr("b").base # None
        /\ Arr("b").base = owner_of(env["a"], Arr("a"))
        /\ \A idx \in Coords(Arr("b").shape) :
              At("b", idx) =
                  At("a", [k \in 1..Len(idx) |-> rel.start[k] + idx[k] * rel.step[k]])
        /\ (last.cell = "setitem" /\ last.err = "") =>
              \A c \in Selected(Arr(last.name), last.ix) :
                  At(last.name, c) = last.arg[1]

\* The notebook's case: b = a[...], then a[-1] = 90, and b shows the 90.
C1_Witness ==
    /\ Bound("a") /\ Bound("b") /\ rel.kind = "view"
    /\ last.cell = "setitem" /\ last.err = "" /\ last.name = "a"
    /\ last.ix = <<Index(-1)>> /\ last.arg = <<90>>
    /\ \E idx \in Coords(Arr("b").shape) : At("b", idx) = 90
    /\ \E idx \in Coords(Arr("b").shape) : At("b", idx) = 91

\* C2: right after b = a.copy(), b has no base, a's shape, and a's value at
\* every coordinate; from then on an element assignment through a or through
\* a view of a leaves every element of b as it was, and an assignment
\* through b leaves every element of a and of the view as they were.
C2_CopyIsIndependent ==
    [][/\ last'.cell = "copy" =>
            /\ Arr("b")'.base = None
            /\ Arr("b")'.shape = Arr("a")'.shape
            /\ \A idx \in Coords(Arr("a")'.shape) : At("b", idx)' = At("a", idx)'
       /\ (rel.kind = "copy" /\ last'.cell = "setitem") =>
            IF last'.name = "b"
            THEN Untouched("a") /\ (Bound("v") => Untouched("v"))
            ELSE Untouched("b")]_vars

\* The notebook's case with a view added: b = a.copy(), then 90 assigned
\* through a and 91 through a view of a; b still holds no 90 and no 91.
C2_Witness ==
    /\ Bound("a") /\ Bound("b") /\ Bound("v") /\ rel.kind = "copy"
    /\ last.cell = "setitem" /\ last.err = "" /\ last.name = "v"
    /\ \E idx \in Coords(Arr("a").shape) : At("a", idx) = 90
    /\ \E idx \in Coords(Arr("a").shape) : At("a", idx) = 91
    /\ \A idx \in Coords(Arr("b").shape) : At("b", idx) \notin WriteVals
    /\ ndim(Arr("a")) = 2

\* C3: b = a[mask] with a mask of a's shape is a 1-D array without a base
\* holding exactly the elements of a whose mask entry is true, in row-major
\* order of a; later assignments through a leave it as it was and
\* assignments through it leave a as it was.  A mask of another shape fails
\* with ShapeError and binds nothing.
MaskSelected ==
    last.cell = "mask" =>
        IF last.arg # Arr("a").shape
        THEN last.err = "ShapeError" /\ ~Bound("b")
        ELSE LET a == Arr("a")
                 b == Arr("b")
                 on == {c \in Coords(a.shape) :
                           last.mask[RowMajorRank(a.shape, c) + 1]}
             IN  /\ last.err = ""
                 /\ b.base = None
                 /\ b.shape = <<Cardinality(on)>>
                 /\ \A c \in on :
                       At("b", <<Cardinality({d \in on : LexLess(d, c)})>>)
                           = At("a", c)

C3_MaskSelectsCopy ==
    [][/\ MaskSelected'
       /\ (rel.kind = "mask" /\ last'.cell = "setitem") =>
            IF last'.name = "b" THEN Untouched("a") ELSE Untouched("b")]_vars

\* A 2-D array masked by a > 2, the three elements kept in row-major order,
\* then assigned through without reaching the selection.
C3_Witness ==
    /\ Bound("a") /\ Bound("b") /\ rel.kind = "mask"
    /\ Arr("a").shape = <<2, 3>>
    /\ FlatOf("b") = <<3, 4, 5>>
    /\ last.cell = "setitem" /\ last.name = "a" /\ last.err = ""
    /\ At("a", <<1, 2>>) = 90

\* The bounds of a range on an axis of length n as the claim reads them:
\* the step defaults to 1; a negative bound counts from the end; a bound
\* beyond the axis stands for its end; an omitted lower bound is the first
\* element in the direction of the step and an omitted upper bound lies
\* past the last.
RangeStep(sl) == IF sl.step = <<>> THEN 1 ELSE sl.step[1]
RangeEdge(x, n, step) ==
    LET y == IF x < 0 THEN x + n ELSE x
    IN  IF step > 0 THEN Max(0, Min(y, n)) ELSE Max(-1, Min(y, n - 1))
RangeLower(sl, n) ==
    IF sl.start = <<>> THEN (IF RangeStep(sl) > 0 THEN 0 ELSE n - 1)
    ELSE RangeEdge(sl.start[1], n, RangeStep(sl))
RangeUpper(sl, n) ==
    IF sl.stop = <<>> THEN (IF RangeStep(sl) > 0 THEN n ELSE -1)
    ELSE RangeEdge(sl.stop[1], n, RangeStep(sl))
\* The positions lower, lower + step, ... that lie before upper.
RangePicks(sl, n) ==
    {x \in 0..(n - 1) :
        /\ \E i \in 0..n : x = RangeLower(sl, n) + i * RangeStep(sl)
        /\ IF RangeStep(sl) > 0 THEN x < RangeUpper(sl, n) ELSE x > RangeUpper(sl, n)}

\* C4: b = a[lower:upper:step, ...] is a view of a's buffer with a's number
\* of axes; on every axis its length is the number of positions picked from
\* lower in steps of step before upper, its stride is a's stride times step,
\* its offset is a's offset plus lower times a's stride summed over the
\* axes, and b[i] is a[lower + i * step], which is never the element at upper.
C4_RangeSelects ==
    (last.cell = "slice" /\ last.err = "") =>
        LET a == Arr("a")
            b == Arr("b")
            sl(k) == IF k <= Len(last.ix) THEN last.ix[k] ELSE FullSlice
            lo(k) == RangeLower(sl(k), a.shape[k])
            st(k) == RangeStep(sl(k))
        IN  /\ ndim(b) = ndim(a)
            /\ b.base = owner_of(env["a"], a)
            /\ \A k \in 1..ndim(a) :
                  /\ b.shape[k] = Cardinality(RangePicks(sl(k), a.shape[k]))
                  /\ b.strides[k] = a.strides[k] * st(k)
            /\ b.offset = a.offset
                          + SumSeq([k \in 1..ndim(a) |-> lo(k) * a.strides[k]])
            /\ \A idx \in Coords(b.shape) :
                  /\ \A k \in 1..ndim(a) :
                        /\ lo(k) + idx[k] * st(k) \in RangePicks(sl(k), a.shape[k])
                        /\ lo(k) + idx[k] * st(k) # RangeUpper(sl(k), a.shape[k])
                  /\ At("b", idx) = At("a", [k \in 1..ndim(a) |-> lo(k) + idx[k] * st(k)])

\* The notebook's a[1:, :2], on the 2 x 3 array: the row [3, 4].
C4_Witness ==
    /\ last.cell = "slice" /\ last.err = ""
    /\ last.ix = <<Slice(<<1>>, <<>>, <<>>), Slice(<<>>, <<2>>, <<>>)>>
    /\ Arr("a").shape = <<2, 3>>
    /\ Arr("b").shape = <<1, 2>>
    /\ FlatOf("b") = <<3, 4>>

\* C5: b = a.transpose(p), for p a permutation of a's axes, has on its axis
\* i the length and the stride of a's axis p[i]; with no p, and for a.T, the
\* axes are reversed; transposing b by the inverse of p gives a's shape
\* again with every element at its coordinate in a.
C5_TransposeRoundTrip ==
    (last.cell \in {"T", "transpose"} /\ last.err = "") =>
        LET a == Arr("a")
            b == Arr("b")
            n == ndim(a)
            p == IF last.arg = <<>> THEN [i \in 1..n |-> n - i] ELSE last.arg
            inv == [j \in 1..n |-> (CHOOSE i \in 1..n : p[i] = j - 1) - 1]
            back == transpose(env["b"], b, inv)
        IN  /\ b.shape = [i \in 1..n |-> a.shape[p[i] + 1]]
            /\ b.strides = [i \in 1..n |-> a.strides[p[i] + 1]]
            /\ back.shape = a.shape
            /\ \A idx \in Coords(a.shape) : item(objs, back, idx) = At("a", idx)

\* The notebook's a.transpose((0, 2, 1)) of the 2 x 3 x 3 array: its first
\* row is 0, 3, 6.
C5_Witness ==
    /\ last.cell = "transpose" /\ last.err = "" /\ last.arg = <<0, 2, 1>>
    /\ Arr("a").shape = <<2, 3, 3>>
    /\ At("b", <<0, 0, 1>>) = 3 /\ At("b", <<0, 0, 2>>) = 6

\* C6: r = x.reshape(s) with product(s) = x.size holds the elements of x in
\* the same row-major sequence, whether x is contiguous (r views x's buffer)
\* or not (r views a copy), and reshaping r back to x's shape puts every
\* element at its coordinate in x; with product(s) # x.size the call fails
\* with ValueError and binds nothing.
C6_ReshapeRoundTrip ==
    last.cell = "reshape" =>
        LET x == Arr(last.name)
            s == last.arg
        IN  IF Prod(s) # size(x)
            THEN last.err = "ValueError" /\ ~Bound("r")
            ELSE LET r == Arr("r")
                     back == reshape(objs, env["r"], r, x.shape)
                 IN  /\ last.err = ""
                     /\ r.shape = s
                     /\ \A c \in Coords(s) : \A d \in Coords(x.shape) :
                           RowMajorRank(s, c) = RowMajorRank(x.shape, d)
                               => At("r", c) = item(objs, x, d)
                     /\ back.arr.shape = x.shape
                     /\ \A d \in Coords(x.shape) :
                           item(back.os, back.arr, d) = item(objs, x, d)

\* The transposed 2 x 3 array, which is not contiguous, reshaped to one
\* axis: the elements in the order the transposed array iterates them, in
\* a buffer of their own.
C6_Witness ==
    /\ last.cell = "reshape" /\ last.err = "" /\ last.name = "b" /\ last.arg = <<6>>
    /\ Arr("b").shape = <<3, 2>>
    /\ FlatOf("r") = <<0, 3, 1, 4, 2, 5>>
    /\ Arr("r").base # Arr("b").base

\* C7: b = x + s and b = x * s for a number s have x's shape and at each
\* coordinate the operation on x's element and s; and they equal, element
\* for element, x combined with an array of x's last-axis length whose
\* every value is s.
C7_ScalarArithmetic ==
    (last.cell \in {"add", "multiply"} /\ Len(last.ops) = 1) =>
        LET x == Arr(last.ops[1])
            s == last.arg[1]
            n == x.shape[ndim(x)]
            full == ndarray(<<n>>, "int", [k \in 1..n |-> s])
            same == ufunc(objs, last.cell, x, full)
        IN  /\ last.err = ""
            /\ Arr("b").shape = x.shape
            /\ \A idx \in Coords(x.shape) :
                  At("b", idx) = IF last.cell = "add" THEN item(objs, x, idx) + s
                                 ELSE item(objs, x, idx) * s
            /\ same.shape = Arr("b").shape
            /\ same.data = FlatOf("b")

\* The 3 x 3 array of 0..8 plus 10: its last element is 18.
C7_Witness ==
    /\ last.cell = "add" /\ last.ops = <<"a1">> /\ last.arg = <<10>>
    /\ Arr("a1").shape = <<3, 3>>
    /\ At("b", <<2, 2>>) = 18 /\ At("b", <<0, 1>>) = 11

\* C8: np.concatenate of one or more arrays of one number of axes whose
\* shapes agree off the axis succeeds; the result has that number of axes,
\* the inputs' lengths off the axis, the sum of their lengths on it, and
\* the k-th input's elements, in order, after those of the inputs before it.
C8_Concatenate ==
    LET names == last.ops
        xs == [k \in 1..Len(names) |-> Arr(names[k])]
        ax == last.arg[1] + 1
        before(k) == SumSeq([j \in 1..(k - 1) |-> xs[j].shape[ax]])
    IN  (/\ last.cell = "concatenate" /\ Len(names) > 0
         /\ \A k \in 1..Len(names) :
               /\ ndim(xs[k]) = ndim(xs[1])
               /\ \A j \in 1..ndim(xs[1]) : j # ax => xs[k].shape[j] = xs[1].shape[j])
        => /\ last.err = ""
           /\ ndim(Arr("b")) = ndim(xs[1])
           /\ \A j \in 1..ndim(xs[1]) :
                 Arr("b").shape[j] = IF j = ax THEN before(Len(names) + 1)
                                     ELSE xs[1].shape[j]
           /\ \A k \in 1..Len(names) : \A idx \in Coords(xs[k].shape) :
                 At("b", [idx EXCEPT ![ax] = @ + before(k)]) = item(objs, xs[k], idx)

\* Shapes (2,3) and (4,3) joined along axis 0: shape (6,3), the second
\* input's first element in row 2.
C8_Witness ==
    /\ last.cell = "concatenate" /\ last.ops = <<"a1", "a2">> /\ last.arg = <<0>>
    /\ Arr("a1").shape = <<2, 3>> /\ Arr("a2").shape = <<4, 3>>
    /\ Arr("b").shape = <<6, 3>>
    /\ At("b", <<2, 0>>) = At("a2", <<0, 0>>) /\ At("b", <<1, 2>>) = 5

\* C9: np.stack of an empty list fails with ValueError, of arrays of
\* differing shapes with ShapeError, and binds nothing; of arrays of one
\* shape it gives an array with one more axis, of length len(arrays), at
\* position axis, and indexing the result at k on that axis gives the k-th
\* array.
C9_Stack ==
    last.cell = "stack" =>
        LET names == last.ops
            xs == [k \in 1..Len(names) |-> Arr(names[k])]
            axis == last.arg[1]
            at(k) == [j \in 1..(axis + 1) |-> IF j <= axis THEN FullSlice ELSE Index(k - 1)]
            sel(k) == basic_index(env["b"], Arr("b"), at(k))
        IN  IF Len(names) = 0 THEN last.err = "ValueError" /\ ~Bound("b")
            ELSE IF \E k \in 1..Len(names) : xs[k].shape # xs[1].shape
            THEN last.err = "ShapeError" /\ ~Bound("b")
            ELSE /\ last.err = ""
                 /\ ndim(Arr("b")) = ndim(xs[1]) + 1
                 /\ Arr("b").shape = insert(xs[1].shape, axis, Len(names))
                 /\ \A k \in 1..Len(names) :
                       /\ sel(k).shape = xs[k].shape
                       /\ \A idx \in Coords(xs[k].shape) :
                             item(objs, sel(k), idx) = item(objs, xs[k], idx)

\* The notebook's np.stack([a1, a2], axis=1) of 0..2 and 3..5: shape (3,2),
\* rows [0 3], [1 4], [2 5].
C9_Witness ==
    /\ last.cell = "stack" /\ last.err = ""
    /\ last.ops = <<"a1", "a2">> /\ last.arg = <<1>>
    /\ Arr("b").shape = <<3, 2>>
    /\ FlatOf("b") = <<0, 3, 1, 4, 2, 5>>

\* The 1-D right operand of the dot that ran last.
DotVector ==
    IF last.cell = "dot" THEN Arr(last.ops[2])
    ELSE basic_index(env[last.ops[2]], Arr(last.ops[2]), <<Index(last.arg[1])>>)

IsIdentity(x) ==
    /\ ndim(x) = 2 /\ x.shape[1] = x.shape[2]
    /\ \A idx \in Coords(x.shape) :
          item(objs, x, idx) = IF idx[1] = idx[2] THEN 1 ELSE 0

\* C10: x.dot(v) of a 2-D x of shape (m,n) with a 1-D v fails with ShapeError
\* when v's length is not n; otherwise it is 1-D of length m with element i
\* the sum over j of x[i,j]*v[j], and when x is an identity matrix it
\* equals v element for element.
C10_Dot ==
    (last.cell \in {"dot", "dot_row"} /\ ndim(Arr(last.ops[1])) = 2 /\ ndim(DotVector) = 1) =>
        LET x == Arr(last.ops[1])
            v == DotVector
            n == x.shape[2]
        IN  IF v.shape[1] # n THEN last.err = "ShapeError" /\ ~Bound("b")
            ELSE /\ last.err = ""
                 /\ Arr("b").shape = <<x.shape[1]>>
                 /\ \A i \in 0..(x.shape[1] - 1) :
                       At("b", <<i>>) = SumSeq([j \in 1..n |->
                           item(objs, x, <<i, j - 1>>) * item(objs, v, <<j - 1>>)])
                 /\ IsIdentity(x) => FlatOf("b") = flat(objs, v)

\* np.eye(3) times the row 13, 14, 15 of a2: the row itself.
C10_Witness ==
    /\ last.cell = "dot_row" /\ last.err = "" /\ last.ops = <<"a1", "a2">>
    /\ last.arg = <<1>>
    /\ IsIdentity(Arr("a1")) /\ Arr("a1").shape = <<3, 3>>
    /\ FlatOf("b") = <<13, 14, 15>>

\* ceil(n / d) for integers n and d, d # 0.
CeilDiv(n, d) == IF d > 0 THEN 0 - ((0 - n) \div d) ELSE 0 - (n \div (0 - d))

\* np.arange(start, stop, step) ran with all three arguments and step # 0.
ArangeRan == last.cell = "arange" /\ Len(last.arg) = 3 /\ last.arg[3] # 0

\* C11, as amended: for integers start, stop and step # 0, np.arange(start,
\* stop, step) is 1-D with max(0, ceil((stop - start) / step)) elements,
\* element k being start + k * step.
C11_ArangeLength ==
    ArangeRan =>
        LET start == last.arg[1]
            stop == last.arg[2]
            step == last.arg[3]
            n == Max(0, CeilDiv(stop - start, step))
        IN  /\ last.err = ""
            /\ Arr("a").shape = <<n>>
            /\ \A k \in 0..(n - 1) : At("a", <<k>>) = start + k * step

\* C11, as stated: the number of elements is ceil((stop - start) / step).
C11_AsStated ==
    ArangeRan => size(Arr("a")) = CeilDiv(last.arg[2] - last.arg[1], last.arg[3])

\* np.arange(5, 3, 1): stop lies below start and the step is positive, so
\* the array is empty, where ceil((3 - 5) / 1) is -2.
C11_Witness ==
    /\ last.cell = "arange" /\ last.arg = <<5, 3, 1>> /\ last.err = ""
    /\ Arr("a").shape = <<0>>
    /\ CeilDiv(3 - 5, 1) = -2

\* C19, as amended: np.arange with a negative step returns an array: 1-D,
\* descending from start by step, every element above stop, and empty
\* exactly when start <= stop.
C19_NegativeStepReturns ==
    (last.cell = "arange" /\ Len(last.arg) = 3 /\ last.arg[3] < 0) =>
        LET start == last.arg[1]
            stop == last.arg[2]
            step == last.arg[3]
            n == size(Arr("a"))
        IN  /\ last.err = "" /\ Bound("a")
            /\ ndim(Arr("a")) = 1
            /\ (n = 0) <=> (start <= stop)
            /\ \A k \in 0..(n - 1) :
                  At("a", <<k>>) = start + k * step /\ At("a", <<k>>) > stop
            /\ start + n * step <= stop \/ n = 0

\* C19, as stated: a call with a step that is not positive fails with
\* ValueError and returns no array.
C19_AsStated ==
    (last.cell = "arange" /\ Len(last.arg) = 3 /\ last.arg[3] <= 0) =>
        last.err = "ValueError" /\ ~Bound("a")

\* np.arange(3, -3, -2): the elements 3, 1, -1.
C19_Witness ==
    /\ last.cell = "arange" /\ last.arg = <<3, -3, -2>> /\ last.err = ""
    /\ FlatOf("a") = <<3, 1, -1>>

\* The nesting depth of s, its length on axis k (1-based), and the item of
\* s at an index tuple, each found by going down s.
RECURSIVE Depth(_)
Depth(s) ==
    IF s.tag = "leaf" THEN 0
    ELSE IF s.items = <<>> THEN 1 ELSE 1 + Depth(s.items[1])

RECURSIVE LengthAt(_, _)
LengthAt(s, k) == IF k = 1 THEN Len(s.items) ELSE LengthAt(s.items[1], k - 1)

Lengths(s) == [k \in 1..Depth(s) |-> LengthAt(s, k)]

RECURSIVE Sub(_, _)
Sub(s, idx) == IF idx = <<>> THEN s ELSE Sub(s.items[idx[1] + 1], Tail(idx))

RECURSIVE Rectangular(_)
Rectangular(s) ==
    \/ s.tag = "leaf"
    \/ \A j \in 1..Len(s.items) :
          /\ Rectangular(s.items[j])
          /\ \A k \in 1..Len(s.items) :
                /\ s.items[j].tag = s.items[k].tag
                /\ Lengths(s.items[j]) = Lengths(s.items[k])

\* An element of a as the number it stands for.
NumberAt(name, idx) ==
    IF Arr(name).dtype = "bool" THEN (IF At(name, idx) THEN 1 ELSE 0) ELSE At(name, idx)

\* C12: a = np.array(s) of a rectangular nested list s has the per-axis
\* lengths of s as its shape, the nesting depth of s as ndim, the product of
\* the shape as size, and at every index tuple the value at that position
\* of s; an s whose lists have differing lengths at some depth fails with
\* ShapeError and binds nothing.
C12_FromNested ==
    last.cell = "array" =>
        LET s == last.arg[1]
        IN  IF Rectangular(s)
            THEN /\ last.err = ""
                 /\ Arr("a").shape = Lengths(s)
                 /\ ndim(Arr("a")) = Depth(s)
                 /\ size(Arr("a")) = Prod(Lengths(s))
                 /\ Len(Buffer(objs, Arr("a"))) = size(Arr("a"))
                 /\ \A idx \in Coords(Lengths(s)) :
                       /\ Sub(s, idx).tag = "leaf"
                       /\ NumberAt("a", idx) = Sub(s, idx).v
            ELSE last.err = "ShapeError" /\ ~Bound("a")

\* Two faces of two rows of one column: shape (2, 2, 1), the last element
\* the last leaf.
C12_Witness ==
    /\ last.cell = "array" /\ last.err = "" /\ last.arg[2] = <<>>
    /\ Arr("a").shape = <<2, 2, 1>> /\ size(Arr("a")) = 4
    /\ FlatOf("a") = <<1, 2, 2, 1>>
    /\ Sub(last.arg[1], <<1, 0, 0>>).v = 2

\* The kinds of the leaves of s.
KindsOf(s) == {leaves(s)[k].kind : k \in 1..Len(leaves(s))}

RECURSIVE OwnerOf(_)
OwnerOf(i) == IF objs[i].base = None THEN i ELSE OwnerOf(objs[i].base)

\* The arrays that read and write the buffer of the array with this id.
Sharing(i) == {j \in DOMAIN objs : OwnerOf(j) = OwnerOf(i)}

\* C14: after any arrays are made and views are taken of them and of their
\* views, every view's base is an array that exists and owns its buffer,
\* the view holds no buffer of its own, and among the arrays sharing a
\* buffer exactly one has no base: the one every base chain ends at.
C14_SingleOwner ==
    \A i \in DOMAIN objs :
        /\ objs[i].base # None =>
              /\ objs[i].base \in DOMAIN objs
              /\ objs[objs[i].base].base = None
              /\ objs[i].data = <<>>
        /\ Cardinality({j \in Sharing(i) : objs[j].base = None}) = 1
        /\ objs[OwnerOf(i)].base = None
        /\ Len(objs[OwnerOf(i)].data) = size(objs[OwnerOf(i)])

\* a is a reshaped arange, b = a.T, c a slice of b: four arrays on the
\* buffer of the arange, which alone has no base.
C14_Witness ==
    /\ Bound("a") /\ Bound("b") /\ Bound("c")
    /\ last.cell = "view" /\ last.name = "c" /\ last.err = ""
    /\ Arr("a").base # None
    /\ Arr("b").base = Arr("a").base /\ Arr("c").base = Arr("a").base
    /\ Cardinality(Sharing(env["c"])) = 4
    /\ Arr("b").strides = <<1, 3>>

\* C17: every array, owner or view, has as many strides as axes, and every
\* index tuple within its shape falls inside the buffer it reads.
C17_OffsetsInBounds ==
    \A i \in DOMAIN objs :
        /\ Len(objs[i].shape) = Len(objs[i].strides)
        /\ ndim(objs[i]) = Len(objs[i].shape)
        /\ \A c \in Coords(objs[i].shape) :
              /\ ElemOffset(objs[i], c) >= 0
              /\ ElemOffset(objs[i], c) < Len(Buffer(objs, objs[i]))

\* c is a backwards slice of a transposed view: a negative stride, an
\* offset past the start of the buffer, and more than one element.
C17_Witness ==
    /\ Bound("c") /\ last.cell = "view" /\ last.name = "c" /\ last.err = ""
    /\ Arr("b").strides = <<1, 3>>
    /\ ndim(Arr("c")) = 2
    /\ Arr("c").strides[1] < 0 /\ Arr("c").offset > 0
    /\ size(Arr("c")) > 1

\* The index expression with a full range for every axis it leaves out, and
\* the axes on which it has a range, in order.
Padded(arr, ix) == [k \in 1..ndim(arr) |-> IF k <= Len(ix) THEN ix[k] ELSE FullSlice]
RangedAxes(arr, ix) ==
    SelectSeq([k \in 1..ndim(arr) |-> k], LAMBDA k : Padded(arr, ix)[k].kind = "slice")
\* The position of a that position c of a[ix] shows.
SourceOf(arr, ix, c) ==
    [k \in 1..ndim(arr) |->
        LET x == Padded(arr, ix)[k]
            j == Cardinality({m \in 1..k : Padded(arr, ix)[m].kind = "slice"})
        IN  IF x.kind = "int" THEN (IF x.i < 0 THEN arr.shape[k] + x.i ELSE x.i)
            ELSE RangeLower(x, arr.shape[k]) + c[j] * RangeStep(x)]

\* C15: in b = a[ix] every integer of ix removes its axis and every axis ix
\* leaves out is taken whole: b has one axis for each range, with that
\* range's length and stride, and shows a's elements at the integers'
\* positions; on a 2-D a, a[i] has shape (columns,), a[:, j] has shape
\* (rows,) and a[i, j] has no axes and is the element at (i, j).
C15_IntegerIndexing ==
    (last.cell = "slice" /\ last.err = "") =>
        LET a == Arr("a")
            b == Arr("b")
            ix == last.ix
            axes == RangedAxes(a, ix)
            ints == {k \in 1..Len(ix) : ix[k].kind = "int"}
        IN  /\ ndim(b) = ndim(a) - Cardinality(ints)
            /\ Len(b.strides) = ndim(b)
            /\ \A j \in 1..Len(axes) :
                  /\ b.shape[j] = Cardinality(RangePicks(Padded(a, ix)[axes[j]],
                                                         a.shape[axes[j]]))
                  /\ b.strides[j] = a.strides[axes[j]] * RangeStep(Padded(a, ix)[axes[j]])
            /\ \A c \in Coords(b.shape) : At("b", c) = At("a", SourceOf(a, ix, c))
            /\ (ndim(a) = 2 /\ Len(ix) = 1 /\ ints = {1}) => b.shape = <<a.shape[2]>>
            /\ (ndim(a) = 2 /\ ix[1] = FullSlice /\ ints = {2}) => b.shape = <<a.shape[1]>>
            /\ (ndim(a) = 2 /\ ints = {1, 2}) => b.shape = <<>>

\* The notebook's a[:, 0] on the 3 x 3 array of 0..8: the column 0, 3, 6.
C15_Witness ==
    /\ last.cell = "slice" /\ last.err = ""
    /\ last.ix = <<FullSlice, Index(0)>>
    /\ Arr("a").shape = <<3, 3>>
    /\ Arr("b").shape = <<3>> /\ Arr("b").strides = <<3>>
    /\ FlatOf("b") = <<0, 3, 6>>

\* Every integer of ix lies within -n..n-1 of its axis, and ix has no more
\* components than arr has axes.
InBounds(arr, ix) ==
    /\ Len(ix) <= ndim(arr)
    /\ \A k \in 1..Len(ix) :
          ix[k].kind = "int" => (0 - arr.shape[k] <= ix[k].i /\ ix[k].i < arr.shape[k])

\* ix with every negative integer k on an axis of length n replaced by n + k.
FromStart(arr, ix) ==
    [k \in 1..Len(ix) |->
        IF ix[k].kind = "int" /\ ix[k].i < 0 THEN Index(arr.shape[k] + ix[k].i)
        ELSE ix[k]]

\* b = a[ix] ran: with every integer in bounds b is the view a[ix'] for ix'
\* counted from the start; otherwise IndexError, and no b.
ReadFromEnd ==
    LET a == Arr("a")
        ix == last'.ix
    IN  IF InBounds(a, ix)
        THEN /\ last'.err = ""
             /\ objs'[env'["b"]] = basic_index(env["a"], a, FromStart(a, ix))
             /\ (ix = <<Index(-1)>> /\ ndim(a) = 1) =>
                   item(objs', objs'[env'["b"]], <<>>) = item(objs, a, <<a.shape[1] - 1>>)
        ELSE last'.err = "IndexError" /\ env'["b"] = None /\ objs' = objs

\* Position c of arr is addressed by the integers of ix, each counted from
\* the end when negative.
Addressed(arr, ix, c) ==
    \A k \in 1..Len(ix) :
        c[k] = IF ix[k].i < 0 THEN arr.shape[k] + ix[k].i ELSE ix[k].i

\* a[ix] = v ran, ix integers: with every integer in bounds exactly the
\* elements ix addresses became v; otherwise IndexError, and no element
\* changed.
WriteFromEnd ==
    LET id == env[last'.name]
        arr == objs[id]
        ix == last'.ix
        v == last'.arg[1]
    IN  IF InBounds(arr, ix)
        THEN /\ last'.err = ""
             /\ \E c \in Coords(arr.shape) : Addressed(arr, ix, c)
             /\ \A c \in Coords(arr.shape) :
                   item(objs', objs'[id], c) =
                       IF Addressed(arr, ix, c) THEN v ELSE item(objs, arr, c)
             /\ (ix = <<Index(-1)>> /\ ndim(arr) = 1) =>
                   item(objs', objs'[id], <<arr.shape[1] - 1>>) = v
        ELSE last'.err = "IndexError" /\ objs' = objs

\* C16: an index k < 0 on an axis of length n addresses what n + k
\* addresses, -1 the last element, in a[ix] and in a[ix] = v alike; an
\* integer outside -n..n-1 fails with IndexError and changes no element.
C16_NegativeIndex ==
    [][/\ (last'.cell = "slice" /\ Len(last'.ix) <= ndim(Arr("a"))) => ReadFromEnd
       /\ (last'.cell = "setitem" /\ Len(last'.ix) <= ndim(objs[env[last'.name]]))
             => WriteFromEnd]_vars

\* The notebook's a[-1] = 90 on a 1-D array of three, seen through b = a[-1].
C16_Witness ==
    /\ last.cell = "setitem" /\ last.err = "" /\ last.ix = <<Index(-1)>>
    /\ Arr("a").shape = <<3>>
    /\ FlatOf("a") = <<0, 1, 90>>
    /\ Bound("b") /\ Arr("b").shape = <<>> /\ Arr("b").offset = 2
    /\ At("b", <<>>) = 90

====
